---- MODULE Spec2Model ----
(***************************************************************************)
(* Model of the file-ingestion and conversation-assembly pipeline of the   *)
(* Multimodal API (services/gemini.service.ts, utils/file.utils.ts).       *)
(*                                                                         *)
(* One request is followed from handleChatRequest's entry                  *)
(* (routes/chat.route.ts) through processGeminiRequest to the HTTP status   *)
(* of the Response.  Every awaited remote call (fetch, ai.files.upload,           *)
(* ai.files.get, ai.getFile, ai.models.generateContent) is one action      *)
(* whose outcome is chosen by the environment.  The input arrays           *)
(* (MessageHistory, an item's filedata, fileURL) are read as the for-of    *)
(* loops read them: element by element, each loop step either finding the  *)
(* array exhausted or taking its next element.                             *)
(*                                                                         *)
(* A URI is the sequence of its segments between '/' characters, so        *)
(* "https://h/v1beta/files/abc" is <<"https:", "", "h", "v1beta",          *)
(* "files", "abc">> and the empty string is <<"">>.                        *)
(***************************************************************************)
EXTENDS Integers, Sequences, FiniteSets

\* ---------------------------------------------------------------- bounds
\* history items in one request
MaxHistory == 2
\* file elements (descriptors and locators) in one request
MaxFiles == 2

\* ------------------------------------------------------ program constants
MAX_RETRIES == 20
maxRetries == 20

\* ------------------------------------------------------------ JS values
Undefined == "<undefined>"
EmptyStr == <<"">>
BlankStr == <<" ">>
NoUri == <<>>

RemotePrefix == <<"https:", "", "generativelanguage.googleapis.com", "v1beta", "files">>
RemoteUri(id) == RemotePrefix \o <<id>>
ForeignUri == <<"http:", "", "example.com", "a.png">>
NoIdUri == <<"https:", "", "store", "f1">>

\* String.prototype.startsWith with the remote-store prefix, which ends in '/'
StartsWithRemotePrefix(uri) ==
    /\ Len(uri) > Len(RemotePrefix)
    /\ SubSeq(uri, 1, Len(RemotePrefix)) = RemotePrefix

\* typeof v === "string" && v.trim(), for a URI
UsableUri(uri) == uri # NoUri /\ uri # EmptyStr /\ uri # BlankStr

\* typeof v === "string" && v.trim(), for a text or MIME type
UsableText(s) == s # Undefined /\ s # "" /\ s # " "

\* variant of extractFileIdFromUri: the id is whatever follows the last '/'
extractLastSegment(fileUri) ==
    IF Len(fileUri) >= 1 THEN fileUri[Len(fileUri)] ELSE ""

\* fileUri.match(/\/files\/([^/]+)$/): the captured id, "" when no match
extractFileIdFromUri(fileUri) ==
    IF /\ Len(fileUri) >= 3
       /\ fileUri[Len(fileUri) - 1] = "files"
       /\ fileUri[Len(fileUri)] # ""
    THEN fileUri[Len(fileUri)]
    ELSE ""

\* message.includes('404') || message.includes('not found') for the message
\* of the FAILED error of waitForFileActive, which embeds the file id
FailedMessageLooksNotFound(fileId) == fileId \in {"f404"}

\* ------------------------------------------------------------- inputs
StoreMime == "application/octet-stream"
GivenMime == "image/png"

\* elements a history item's filedata array can hold
Descriptors ==
    { [uri |-> RemoteUri("abc"), mimeType |-> GivenMime],
      [uri |-> ForeignUri, mimeType |-> GivenMime],
      [uri |-> RemoteUri(""), mimeType |-> GivenMime],
      [uri |-> EmptyStr, mimeType |-> GivenMime],
      [uri |-> ForeignUri, mimeType |-> Undefined] }


\* elements the fileURL array can hold
Locators == { ForeignUri, RemoteUri("abc"), BlankStr }

Inputs == {Undefined, " ", "hello"}

\* requests: req.method, whether the Content-Type header includes
\* application/json, whether req.json() returns
Requests == [ method : {"OPTIONS", "GET", "POST"}, json : BOOLEAN, parses : BOOLEAN ]

\* uri of the file object a status poll of the uploader returns
StoreUris == { RemoteUri("f404"), EmptyStr, NoIdUri }

\* ---------------------------------------- values handed to the parsers
\* The filedata of a history item and the fileURL of the request are JS
\* values.  A string is the sequence of its characters; a number keeps its
\* digits; LazyArray is a native array whose elements the for-of loop of
\* the caller reads one by one (see HistoryFile, CurrentFile).
Str(cs) == [t |-> "str", v |-> cs]
Num(cs) == [t |-> "num", v |-> cs]
Arr(vs) == [t |-> "arr", v |-> vs]
Undef == [t |-> "undef"]
LazyArray == [t |-> "lazy"]

\* String.prototype.trim
RECURSIVE TrimStart(_)
TrimStart(cs) ==
    IF cs # <<>> /\ Head(cs) = " " THEN TrimStart(Tail(cs)) ELSE cs

RECURSIVE TrimEnd(_)
TrimEnd(cs) ==
    IF cs # <<>> /\ cs[Len(cs)] = " "
    THEN TrimEnd(SubSeq(cs, 1, Len(cs) - 1))
    ELSE cs

trim(cs) == TrimEnd(TrimStart(cs))

\* String.prototype.includes, for one character
includes(cs, c) == \E i \in 1..Len(cs) : cs[i] = c

\* String.prototype.split, for a one-character separator
RECURSIVE split(_, _)
split(cs, sep) ==
    IF ~includes(cs, sep)
    THEN << cs >>
    ELSE LET i == CHOOSE i \in 1..Len(cs) :
                    cs[i] = sep /\ \A j \in 1..(i - 1) : cs[j] # sep
         IN  << SubSeq(cs, 1, i - 1) >> \o split(SubSeq(cs, i + 1, Len(cs)), sep)

\* JSON.parse over the characters [ ] " , space, the digit 1 and the
\* letter a: strings without escapes, numbers of digits, arrays of values.
\* The result is [ok, val, next]; ok = FALSE stands for the SyntaxError.
JsonFail == [ok |-> FALSE, val |-> Undef, next |-> 0]

RECURSIVE SkipWs(_, _)
SkipWs(s, i) == IF i <= Len(s) /\ s[i] = " " THEN SkipWs(s, i + 1) ELSE i

RECURSIVE EndOfDigits(_, _)
EndOfDigits(s, i) == IF i <= Len(s) /\ s[i] = "1" THEN EndOfDigits(s, i + 1) ELSE i

\* index of the quote that closes the string opened at j, 0 if none
ClosingQuote(s, j) ==
    IF \E k \in (j + 1)..Len(s) : s[k] = "\""
    THEN CHOOSE k \in (j + 1)..Len(s) :
           s[k] = "\"" /\ \A m \in (j + 1)..(k - 1) : s[m] # "\""
    ELSE 0

RECURSIVE ParseValue(_, _)
RECURSIVE ParseElems(_, _, _)
ParseValue(s, i) ==
    LET j == SkipWs(s, i) IN
    IF j > Len(s) THEN JsonFail
    ELSE IF s[j] = "\""
    THEN LET k == ClosingQuote(s, j) IN
         IF k = 0 THEN JsonFail
         ELSE [ok |-> TRUE, val |-> Str(SubSeq(s, j + 1, k - 1)), next |-> k + 1]
    ELSE IF s[j] = "1"
    THEN LET m == EndOfDigits(s, j) IN
         [ok |-> TRUE, val |-> Num(SubSeq(s, j, m - 1)), next |-> m]
    ELSE IF s[j] = "["
    THEN LET k == SkipWs(s, j + 1) IN
         IF k <= Len(s) /\ s[k] = "]"
         THEN [ok |-> TRUE, val |-> Arr(<<>>), next |-> k + 1]
         ELSE ParseElems(s, j + 1, <<>>)
    ELSE JsonFail

\* the elements of an array after its '[' or after a ','
ParseElems(s, i, acc) ==
    LET v == ParseValue(s, i) IN
    IF ~v.ok THEN JsonFail
    ELSE LET k == SkipWs(s, v.next) IN
         IF k > Len(s) THEN JsonFail
         ELSE IF s[k] = "," THEN ParseElems(s, k + 1, Append(acc, v.val))
         ELSE IF s[k] = "]"
         THEN [ok |-> TRUE, val |-> Arr(Append(acc, v.val)), next |-> k + 1]
         ELSE JsonFail

JsonParse(s) ==
    LET v == ParseValue(s, 1) IN
    IF v.ok /\ SkipWs(s, v.next) > Len(s) THEN v ELSE JsonFail

\* typeof url === "string" && url.trim()
NonBlankString(e) == e.t = "str" /\ trim(e.v) # <<>>

\* variant of KeepLocators: every kept element is split on its commas
KeepLocatorsResplit(elems) ==
    LET kept == SelectSeq(elems, NonBlankString)
        F[i \in 0..Len(kept)] ==
            IF i = 0 THEN <<>> ELSE F[i - 1] \o split(kept[i].v, ",")
    IN  F[Len(kept)]

\* the filter of parseFileURLs on an array: its non-blank strings, as given
KeepLocators(elems) ==
    LET kept == SelectSeq(elems, NonBlankString)
    IN  [i \in 1..Len(kept) |-> kept[i].v]

\* variant of CommaFallback: the string is always taken as one locator
CommaFallbackLiteral(cs) == << trim(cs) >>

\* parseFileURLs, the catch block of JSON.parse: comma-split, else literal
CommaFallback(cs) ==
    IF includes(cs, ",")
    THEN LET segs == split(cs, ",")
             trimmed == [i \in 1..Len(segs) |-> trim(segs[i])]
         IN  SelectSeq(trimmed, LAMBDA x : x # <<>>)
    ELSE << trim(cs) >>

\* parseFileURLs: the list of locators of a fileURL value
parseFileURLs(userFileURL) ==
    IF userFileURL.t = "arr" THEN KeepLocators(userFileURL.v)
    ELSE IF userFileURL.t = "str" /\ trim(userFileURL.v) # <<>>
    THEN LET r == JsonParse(userFileURL.v) IN
         IF r.ok
         THEN IF r.val.t = "arr"
              THEN KeepLocators(r.val.v)
              ELSE << trim(userFileURL.v) >>
         ELSE CommaFallback(userFileURL.v)
    ELSE <<>>

\* variant of parseFileData: a JSON value that is no array is wrapped in one
parseFileDataWrapping(rawFileData) ==
    IF rawFileData.t = "str"
    THEN IF trim(rawFileData.v) = <<>> THEN Arr(<<>>)
         ELSE LET r == JsonParse(rawFileData.v) IN
              IF r.ok
              THEN IF r.val.t = "arr" THEN r.val ELSE Arr(<< r.val >>)
              ELSE Arr(<<>>)
    ELSE IF rawFileData.t \in {"arr", "lazy"} THEN rawFileData
    ELSE Arr(<<>>)

\* parseFileData: the parsed value of a history item's filedata
parseFileData(rawFileData) ==
    IF rawFileData.t = "str"
    THEN IF trim(rawFileData.v) = <<>> THEN Arr(<<>>)
         ELSE LET r == JsonParse(rawFileData.v) IN
              IF r.ok THEN r.val ELSE Arr(<<>>)
    ELSE IF rawFileData.t \in {"arr", "lazy"} THEN rawFileData
    ELSE Arr(<<>>)

\* what a file loop iterates over: lazy, or the elements still to be taken
NoFiles == [lazy |-> FALSE, rest |-> <<>>]

\* if (Array.isArray(parsedFileData)) for (const fileDataItem of ...)
FilesOf(parsed) ==
    IF parsed.t = "lazy" THEN [lazy |-> TRUE, rest |-> <<>>]
    ELSE IF parsed.t = "arr" THEN [lazy |-> FALSE, rest |-> parsed.v]
    ELSE NoFiles

\* for (const url of currentFileURLs)
UrlsOf(fileURL) ==
    IF fileURL.t = "lazy" THEN [lazy |-> TRUE, rest |-> <<>>]
    ELSE [lazy |-> FALSE, rest |-> parseFileURLs(fileURL)]

\* filedata values of the history items of a request
FileDataInputs ==
    { Undef, LazyArray, Str(<<>>), Str(<<" ">>), Str(<<"a">>), Str(<<"1">>),
      Str(<<"\"", "a", "\"">>), Str(<<"[", "]">>), Str(<<"[", "1", "]">>) }

HistoryItems ==
    [ role : {"model", Undefined}, text : {"hi", "", Undefined},
      filedata : FileDataInputs ]

\* fileURL values of a request
FileURLInputs == { Undef, LazyArray, Str(<<" ">>) }

\* ------------------------------------------------------------- state
VARIABLES
    req,             \* the Request given to handleChatRequest
    status,          \* HTTP status of the Response of handleChatRequest, 0: none yet
    apikey,          \* data.apikey
    pc,              \* position of processGeminiRequest
    hIdx,            \* history items taken by the for-of loop
    role,            \* role of the turn taken last
    turnText,        \* historyItem.text / data.input of the turn taken last
    filedata,        \* historyItem.filedata / data.fileURL of that turn
    files,           \* what the file loop of the turn iterates over
    fIdx,            \* files of the turn taken by the file loop
    filesSeen,       \* file elements the request has supplied so far
    parts,           \* geminiPartsForHistory / currentUserParts
    activated,       \* per file of the turn, in order: did it yield a part
    caller,          \* "history" or "current": who runs the file pipeline
    cur,             \* the file in progress, see NoFile
    historyContents, \* finalContents of processMessageHistory
    historyFiles,    \* newlyUploadedFilesInfo of processMessageHistory
    userContents,    \* finalContents of processCurrentUserInput
    userFiles,       \* newlyUploadedFilesInfo of processCurrentUserInput
    allContents,     \* argument of generateGeminiContent
    generateCalls,   \* calls of ai.models.generateContent
    generated,       \* "none", or how that call ended: "returned", "threw"
    response         \* ResponseData, or NoResponse

vars == << req, status, apikey, pc, hIdx, role, turnText, filedata, files, fIdx,
           filesSeen, parts, activated, caller, cur,
           historyContents, historyFiles, userContents, userFiles,
           allContents, generateCalls, generated, response >>

NoResponse == [kind |-> "none"]

\* url: argument of fetchAndUploadFile while it runs; uri, mimeType:
\* fileUriToUse / uploadedFile.uri and the MIME type that goes with it;
\* i: counter of the polling loop in progress; uploaded: the file came
\* back from fetchAndUploadFile, whose loop polled it at least once;
\* sawActive, sawFailed: a status poll of this file answered so;
\* sawNotFound: a status poll of waitForFileActive threw a not-found error;
\* outcome: how the file ended; incomplete: fileToPoll, the file object of
\* the upload response, lacks a name or a uri
NoFile == [ url |-> NoUri, uri |-> NoUri, mimeType |-> Undefined, i |-> 0,
            incomplete |-> FALSE, sawNotFound |-> FALSE,
            uploaded |-> FALSE, sawActive |-> FALSE, sawFailed |-> FALSE,
            outcome |-> "none" ]

Init ==
    /\ req \in Requests
    /\ status = 0
    /\ apikey \in {Undefined, "", "key"}
    /\ pc = "route"
    /\ hIdx = 0
    /\ role = Undefined
    /\ turnText = Undefined
    /\ filedata = Undef
    /\ files = NoFiles
    /\ fIdx = 0
    /\ filesSeen = 0
    /\ parts = <<>>
    /\ activated = <<>>
    /\ caller = "history"
    /\ cur = NoFile
    /\ historyContents = <<>>
    /\ historyFiles = <<>>
    /\ userContents = <<>>
    /\ userFiles = <<>>
    /\ allContents = <<>>
    /\ generateCalls = 0
    /\ generated = "none"
    /\ response = NoResponse

\* ------------------------------------------------------ pure helpers
\* variant of WellFormed: every element of the array is taken as a descriptor
WellFormedAny(d) == "uri" \in DOMAIN d

\* a descriptor the history loop accepts (object with usable uri and mimeType)
WellFormed(d) ==
    /\ "uri" \in DOMAIN d
    /\ UsableUri(d.uri)
    /\ UsableText(d.mimeType)

\* variant of ValidItem: every history item is processed
ValidItemAny(it) == TRUE

\* typeof historyItem === "object" && typeof historyItem.role === "string"
ValidItem(it) == it.role # Undefined

\* variant of TextParts: every string, blank or not, yields a text part
TextPartsUntrimmed(text) ==
    IF text # Undefined THEN << [text |-> text] >> ELSE <<>>

\* the text part of a turn, if its text is a non-blank string
TextParts(text) == IF UsableText(text) THEN << [text |-> text] >> ELSE <<>>

\* createPartFromUri; k is the position of the file in the turn's list
createFilePartFromUri(fileUri, mimeType, k) ==
    [fileUri |-> fileUri, mimeType |-> mimeType, k |-> k]

\* variant of PushPart: the part is put in front (unshift for push)
PushPartFront(ps, p) == << p >> \o ps

\* Array.prototype.push on a parts list
PushPart(ps, p) == Append(ps, p)

\* createUserContent; item is the history index, 0 for the current turn
createUserContent(ps, r, item) == [role |-> r, parts |-> ps, item |-> item]

\* variant of EmitBlock: a block is emitted for every turn
EmitBlockAlways(ps, r, item) == << createUserContent(ps, r, item) >>

\* blocks contributed by a turn: none when it has no parts
EmitBlock(ps, r, item) ==
    IF Len(ps) > 0 THEN << createUserContent(ps, r, item) >> ELSE <<>>

\* the history loop uploads only locators outside the remote store;
\* the current-turn loop calls fetchAndUploadFile for every locator
NeedsUpload(c, uri) ==
    IF c = "history" THEN ~StartsWithRemotePrefix(uri) ELSE TRUE

\* variant of LoopHead: the next file is always taken by the current turn
LoopHeadCurrent(c) == "cfile"

\* the head of the file loop of the turn in progress
LoopHead(c) == IF c = "history" THEN "hfile" ELSE "cfile"

\* variant of AfterFileError: the error leaves the loops (no catch block)
AbortOnFileError(c) == "done"

\* where control goes after a per-file catch block: on with the file loop
AfterFileError(c) == LoopHead(c)

\* variant of MergeContents: the current turn's block is put first
MergeUserFirst(h, u) == u \o h

\* [...historyContents, ...userContents]
MergeContents(h, u) == h \o u

\* variants of NoContent: the check never fires; it fires on one block too
NoContentNever(all) == FALSE
NoContentBelowTwo(all) == Len(all) <= 1

\* allContents.length === 0
NoContent(all) == Len(all) = 0

\* variant of UploadResponseAccepted: the file object must be complete
UploadResponseComplete(r) == r = "file"

\* !(!uploadResponse || !uploadResponse.file): the response carries a file
\* object; its name and uri are not looked at
UploadResponseAccepted(r) == r \in {"file", "incomplete"}

\* variant of ApiKeyMissing: only an absent key counts, an empty one passes
ApiKeyMissingOnlyAbsent(k) == k = Undefined

\* !apiKey
ApiKeyMissing(k) == k = Undefined \/ k = ""

\* variant of StatusOf: an internal error of the service is answered with 500
StatusOfInternal(r) ==
    IF r.success THEN 200 ELSE IF r.kind = "InternalError" THEN 500 ELSE 400

\* status: response.success ? 200 : 400
StatusOf(r) == IF r.success THEN 200 ELSE 400

\* variant of CaughtErrorResponse: the records gathered so far are returned
CaughtErrorResponseWithFiles(uploaded) ==
    [kind |-> "InternalError", success |-> FALSE, fileDatas |-> uploaded]

\* the catch block of processGeminiRequest; uploaded: the records so far
CaughtErrorResponse(uploaded) ==
    [kind |-> "InternalError", success |-> FALSE, fileDatas |-> <<>>]

\* variant of UploadRecord: the record carries the store's default MIME type
UploadRecordStoreMime(c) == [uri |-> c.uri, mimeType |-> StoreMime]

\* newlyUploadedFilesInfo.push({ uri, mimeType })
UploadRecord(c) == [uri |-> c.uri, mimeType |-> c.mimeType]

\* variant of Escalates: no answer of a status poll ends the wait
EscalatesNever(r, fileId) == FALSE

\* waitForFileActive, the catch block: the error is rethrown if its message
\* includes '404' or 'not found'; the FAILED error is thrown inside the try
Escalates(r, fileId) ==
    \/ r = "throwNotFound"
    \/ r = "FAILED" /\ FailedMessageLooksNotFound(fileId)

\* variant of AdvanceAttempt: the counter is set back after the first retry
AdvanceAttemptWrapping(i) == (i + 1) % 2

\* i++ of the polling loops
AdvanceAttempt(i) == i + 1

\* the loop condition i < maxRetries after i++
NextAttempt(i, budget) == i + 1 < budget

\* ------------------------------------------------- per-file outcomes
\* the file is over: its locals go, how it ended stays
Ended(c, outcome) ==
    [NoFile EXCEPT !.outcome = outcome, !.sawActive = c.sawActive,
                   !.sawFailed = c.sawFailed, !.uploaded = c.uploaded,
                   !.sawNotFound = c.sawNotFound]

\* the catch blocks of the two file loops: log, drop the file, go on
Drop(c, outcome) ==
    /\ cur' = Ended(c, outcome)
    /\ activated' = Append(activated, FALSE)
    /\ fIdx' = fIdx + 1
    /\ pc' = AfterFileError(caller)
    /\ UNCHANGED << parts, historyFiles, userFiles >>

\* waitForFileActive returned: record the upload and push the file part
Accept(c) ==
    /\ cur' = Ended(c, "Added")
    /\ parts' = PushPart(parts, createFilePartFromUri(c.uri, c.mimeType, fIdx + 1))
    /\ IF caller = "history"
       THEN /\ historyFiles' = Append(historyFiles, UploadRecord(c))
            /\ UNCHANGED userFiles
       ELSE /\ userFiles' = Append(userFiles, UploadRecord(c))
            /\ UNCHANGED historyFiles
    /\ activated' = Append(activated, TRUE)
    /\ fIdx' = fIdx + 1
    /\ pc' = LoopHead(caller)

\* entry of waitForFileActive for the file c: the id must be extractable
StartWait(c) ==
    IF extractFileIdFromUri(c.uri) = ""
    THEN Drop(c, "NoFileId")
    ELSE /\ cur' = [c EXCEPT !.i = 0]
         /\ pc' = "wpoll"
         /\ UNCHANGED << parts, historyFiles, userFiles, activated, fIdx >>

\* entry of fetchAndUploadFile(url): fetch(url) is issued
StartFetch(url) ==
    /\ cur' = [NoFile EXCEPT !.url = url]
    /\ pc' = "fetch"
    /\ UNCHANGED << parts, historyFiles, userFiles, activated, fIdx >>

\* ------------------------------------------------------------ actions
\* handleChatRequest up to the call of processGeminiRequest
HandleChatRequest ==
    /\ pc = "route"
    /\ IF req.method = "OPTIONS"
       THEN status' = 200 /\ pc' = "refused"
       ELSE IF req.method # "POST"
       THEN status' = 405 /\ pc' = "refused"
       ELSE IF ~req.json
       THEN status' = 400 /\ pc' = "refused"
       ELSE IF ~req.parses
       THEN status' = 500 /\ pc' = "refused"
       ELSE pc' = "start" /\ UNCHANGED status
    /\ UNCHANGED << req, apikey, turnText, filedata, files, filesSeen, hIdx, role,
                    fIdx, parts, activated, caller, cur, historyContents,
                    historyFiles, userContents, userFiles, allContents,
                    generateCalls, generated, response >>

\* handleChatRequest: processGeminiRequest returned, the Response is built
Reply ==
    /\ pc = "done"
    /\ status = 0
    /\ status' = StatusOf(response)
    /\ UNCHANGED << req, apikey, pc, turnText, filedata, files, filesSeen, hIdx,
                    role, fIdx, parts, activated, caller, cur, historyContents,
                    historyFiles, userContents, userFiles, allContents,
                    generateCalls, generated, response >>

\* processGeminiRequest: the apikey check
CheckApiKey ==
    /\ pc = "start"
    /\ IF ApiKeyMissing(apikey)
       THEN /\ response' = [kind |-> "ApiKeyMissing", success |-> FALSE, fileDatas |-> <<>>]
            /\ pc' = "done"
       ELSE /\ pc' = "history"
            /\ UNCHANGED response
    /\ UNCHANGED << req, status, apikey, turnText, filedata, files, filesSeen, hIdx, role, fIdx, parts, activated, caller, cur,
                    historyContents, historyFiles, userContents, userFiles,
                    allContents, generateCalls, generated >>

\* processMessageHistory: the loop takes the next history item
HistoryItem ==
    /\ pc = "history"
    /\ hIdx < MaxHistory
    /\ \E it \in HistoryItems :
         /\ Len(FilesOf(parseFileData(it.filedata)).rest) <= MaxFiles - filesSeen
         /\ hIdx' = hIdx + 1
         /\ role' = it.role
         /\ turnText' = it.text
         /\ filedata' = it.filedata
         /\ IF ~ValidItem(it)
            THEN UNCHANGED << pc, parts, files >>
            ELSE /\ parts' = TextParts(it.text)
                 /\ files' = FilesOf(parseFileData(it.filedata))
                 /\ pc' = "hfile"
    /\ UNCHANGED << req, status, apikey, filesSeen, fIdx, activated, caller, cur, historyContents,
                    historyFiles, userContents, userFiles, allContents,
                    generateCalls, generated, response >>

\* processMessageHistory: the loop takes the next file descriptor of the item
HistoryFile ==
    /\ pc = "hfile"
    /\ filesSeen < MaxFiles
    /\ files.lazy \/ files.rest # <<>>
    /\ filesSeen' = filesSeen + 1
    /\ files' = IF files.lazy THEN files ELSE [files EXCEPT !.rest = Tail(@)]
    /\ \E d \in (IF files.lazy THEN Descriptors ELSE {Head(files.rest)}) :
         IF ~WellFormed(d)
         THEN /\ cur' = Ended(NoFile, "Skipped")
              /\ activated' = Append(activated, FALSE)
              /\ fIdx' = fIdx + 1
              /\ UNCHANGED << pc, parts, historyFiles, userFiles >>
         ELSE IF NeedsUpload(caller, d.uri)
         THEN StartFetch(d.uri)
         ELSE StartWait([NoFile EXCEPT !.uri = d.uri, !.mimeType = d.mimeType])
    /\ UNCHANGED << req, status, apikey, turnText, filedata, hIdx, role, caller, historyContents,
                    userContents, allContents, generateCalls, generated, response >>

\* processMessageHistory: the item's files are done, its block is assembled
EndHistoryItem ==
    /\ pc = "hfile"
    /\ files.lazy \/ files.rest = <<>>
    /\ historyContents' = historyContents \o EmitBlock(parts, role, hIdx)
    /\ pc' = "history"
    /\ parts' = <<>>
    /\ fIdx' = 0
    /\ activated' = <<>>
    /\ cur' = NoFile
    /\ role' = Undefined
    /\ turnText' = Undefined
    /\ filedata' = Undef
    /\ files' = NoFiles
    /\ UNCHANGED << req, status, apikey, filesSeen, hIdx, caller, historyFiles, userContents,
                    userFiles, allContents, generateCalls, generated, response >>

\* processMessageHistory returns; processCurrentUserInput takes the text
CurrentInput ==
    /\ pc = "history"
    /\ \E input \in Inputs :
         /\ turnText' = input
         /\ parts' = TextParts(input)
    /\ \E fileURL \in FileURLInputs :
         /\ filedata' = fileURL
         /\ files' = UrlsOf(fileURL)
    /\ role' = "user"
    /\ caller' = "current"
    /\ pc' = "cfile"
    /\ UNCHANGED << req, status, apikey, filesSeen, hIdx, fIdx, activated, cur, historyContents,
                    historyFiles, userContents, userFiles, allContents,
                    generateCalls, generated, response >>

\* processCurrentUserInput: the loop takes the next parsed locator
CurrentFile ==
    /\ pc = "cfile"
    /\ files.lazy
    /\ filesSeen < MaxFiles
    /\ filesSeen' = filesSeen + 1
    /\ \E url \in { u \in Locators : UsableUri(u) } :
         IF NeedsUpload(caller, url)
         THEN StartFetch(url)
         ELSE StartWait([NoFile EXCEPT !.uri = url])
    /\ UNCHANGED << req, status, apikey, turnText, filedata, files, hIdx, role, caller, historyContents, userContents,
                    allContents, generateCalls, generated, response >>

\* fetchAndUploadFile step 1: fetch(url) answers
Fetch ==
    /\ pc = "fetch"
    /\ \E ok \in BOOLEAN :
         IF ok
         THEN /\ pc' = "upload"
              /\ UNCHANGED << cur, parts, historyFiles, userFiles, activated, fIdx >>
         ELSE Drop(cur, "FetchFailure")
    /\ UNCHANGED << req, status, apikey, turnText, filedata, files, filesSeen, hIdx, role, caller, historyContents, userContents,
                    allContents, generateCalls, generated, response >>

\* fetchAndUploadFile step 2: ai.files.upload answers
Upload ==
    /\ pc = "upload"
    /\ \E r \in {"file", "incomplete", "nofile", "throw"} :
         IF UploadResponseAccepted(r)
         THEN /\ pc' = "upoll"
              /\ cur' = [cur EXCEPT !.i = 0, !.incomplete = (r = "incomplete")]
              /\ UNCHANGED << parts, historyFiles, userFiles, activated, fIdx >>
         ELSE Drop(cur, "UploadFailure")
    /\ UNCHANGED << req, status, apikey, turnText, filedata, files, filesSeen, hIdx, role, caller, historyContents, userContents,
                    allContents, generateCalls, generated, response >>

\* fetchAndUploadFile step 3: one ai.files.get of the polling loop answers
UploaderPoll ==
    /\ pc = "upoll"
    /\ \E r \in {"ACTIVE", "FAILED", "PROCESSING", "throwNotFound", "throwOther"} :
         CASE r = "ACTIVE" ->
                \E u \in StoreUris :
                  LET a == [cur EXCEPT !.sawActive = TRUE, !.uploaded = TRUE,
                                       !.url = NoUri, !.incomplete = FALSE,
                                       !.uri = u,
                                       !.mimeType = StoreMime] IN
                  IF u = EmptyStr THEN Drop(a, "EmptyUri") ELSE StartWait(a)
           [] r = "FAILED" ->
                Drop([cur EXCEPT !.sawFailed = TRUE], "ActivationFailed")
           [] r = "PROCESSING" ->
                IF NextAttempt(cur.i, MAX_RETRIES)
                THEN /\ cur' = [cur EXCEPT !.i = AdvanceAttempt(@)]
                     /\ UNCHANGED << pc, parts, historyFiles, userFiles, activated, fIdx >>
                ELSE Drop(cur, "ActivationTimedOut")
           [] r = "throwNotFound" ->
                Drop(cur, "NotFound")
           [] r = "throwOther" ->
                Drop(cur, "PollError")
    /\ UNCHANGED << req, status, apikey, turnText, filedata, files, filesSeen, hIdx, role, caller, historyContents, userContents,
                    allContents, generateCalls, generated, response >>

\* waitForFileActive: one ai.getFile of the polling loop answers
WaiterPoll ==
    /\ pc = "wpoll"
    /\ \E r \in {"ACTIVE", "FAILED", "PROCESSING", "throwNotFound", "throwOther"} :
         LET c == [cur EXCEPT !.sawActive = @ \/ r = "ACTIVE",
                              !.sawFailed = @ \/ r = "FAILED",
                              !.sawNotFound = @ \/ r = "throwNotFound"]
         IN  IF r = "ACTIVE" THEN Accept(c)
             ELSE IF Escalates(r, extractFileIdFromUri(c.uri))
             THEN Drop(c, "NotFound")
             ELSE IF NextAttempt(c.i, maxRetries)
             THEN /\ cur' = [c EXCEPT !.i = AdvanceAttempt(@)]
                  /\ UNCHANGED << pc, parts, historyFiles, userFiles, activated, fIdx >>
             ELSE Drop(c, "ActivationTimedOut")
    /\ UNCHANGED << req, status, apikey, turnText, filedata, files, filesSeen, hIdx, role, caller, historyContents, userContents,
                    allContents, generateCalls, generated, response >>

\* processCurrentUserInput returns; processGeminiRequest merges the two
\* results and either reports NoContent or calls generateGeminiContent
EndCurrent ==
    /\ pc = "cfile"
    /\ files.lazy \/ files.rest = <<>>
    /\ userContents' = EmitBlock(parts, role, 0)
    /\ allContents' = MergeContents(historyContents, userContents')
    /\ IF NoContent(allContents')
       THEN /\ response' = [kind |-> "NoContent", success |-> FALSE, fileDatas |-> <<>>]
            /\ pc' = "done"
            /\ UNCHANGED generateCalls
       ELSE /\ generateCalls' = generateCalls + 1
            /\ pc' = "generate"
            /\ UNCHANGED response
    /\ UNCHANGED << req, status, apikey, turnText, filedata, files, filesSeen, hIdx, role, fIdx, parts, activated, caller, cur,
                    historyContents, historyFiles, userFiles, generated >>

\* generateGeminiContent: ai.models.generateContent returns or throws
Generate ==
    /\ pc = "generate"
    /\ \E ok \in BOOLEAN :
         /\ generated' = IF ok THEN "returned" ELSE "threw"
         /\ response' = IF ok
                        THEN [kind |-> "Generated", success |-> TRUE,
                              fileDatas |-> historyFiles \o userFiles]
                        ELSE CaughtErrorResponse(historyFiles \o userFiles)
    /\ pc' = "done"
    /\ UNCHANGED << req, status, apikey, turnText, filedata, files, filesSeen, hIdx, role, fIdx, parts, activated, caller, cur,
                    historyContents, historyFiles, userContents, userFiles,
                    allContents, generateCalls >>

Next ==
    \/ HandleChatRequest
    \/ Reply
    \/ CheckApiKey
    \/ HistoryItem
    \/ HistoryFile
    \/ EndHistoryItem
    \/ CurrentInput
    \/ CurrentFile
    \/ Fetch
    \/ Upload
    \/ UploaderPoll
    \/ WaiterPoll
    \/ EndCurrent
    \/ Generate

Spec == Init /\ [][Next]_vars

\* every awaited call returns or throws, and the code between two awaits
\* runs to the next await: an enabled step is eventually taken
FairSpec == Spec /\ WF_vars(Next)

\* ------------------------------------------- the parsers on their own
\* longest string of free characters handed to a parser
MaxLen == 4
\* most elements of an array handed to a parser
MaxElems == 2

Chars == {"[", "]", "\"", ",", " ", "1", "a"}
CharStrings == UNION { [1..n -> Chars] : n \in 0..MaxLen }

\* strings a caller puts into a locator array
ElemStrings ==
    { <<>>, <<" ">>, <<"a">>, <<",">>, <<"a", ",">>, <<",", "a">>, <<"a", " ">> }
StringLists == UNION { [1..n -> ElemStrings] : n \in 0..MaxElems }
NativeLists ==
    UNION { [1..n -> { Str(e) : e \in ElemStrings } \cup { Num(<<"1">>) }] :
            n \in 0..MaxElems }

\* JSON.stringify of an array of strings that need no escapes
RECURSIVE JoinQuoted(_)
JoinQuoted(a) ==
    IF Len(a) = 0 THEN <<>>
    ELSE <<"\"">> \o Head(a) \o <<"\"">>
         \o (IF Len(a) > 1 THEN <<",">> \o JoinQuoted(Tail(a)) ELSE <<>>)

JsonStringify(a) == <<"[">> \o JoinQuoted(a) \o <<"]">>

EncodedLists == { [list |-> a, json |-> JsonStringify(a)] : a \in StringLists }

ParseInputs ==
    { Str(cs) : cs \in CharStrings }
      \cup { Str(e.json) : e \in EncodedLists }
      \cup { Arr(a) : a \in NativeLists }
      \cup { Undef }

InitParse ==
    /\ filedata \in ParseInputs
    /\ pc = "parse"
    /\ req = [method |-> "POST", json |-> TRUE, parses |-> TRUE]
    /\ status = 0
    /\ apikey = "key"
    /\ hIdx = 0
    /\ role = Undefined
    /\ turnText = Undefined
    /\ files = NoFiles
    /\ fIdx = 0
    /\ filesSeen = 0
    /\ parts = <<>>
    /\ activated = <<>>
    /\ caller = "current"
    /\ cur = NoFile
    /\ historyContents = <<>>
    /\ historyFiles = <<>>
    /\ userContents = <<>>
    /\ userFiles = <<>>
    /\ allContents = <<>>
    /\ generateCalls = 0
    /\ generated = "none"
    /\ response = NoResponse

\* parseFileURLs(filedata) is called and returns
ParseFileURLs ==
    /\ pc = "parse"
    /\ files' = [lazy |-> FALSE, rest |-> parseFileURLs(filedata)]
    /\ pc' = "urls"
    /\ UNCHANGED << req, status, apikey, hIdx, role, turnText, filedata, fIdx, filesSeen, parts,
                    activated, caller, cur, historyContents, historyFiles,
                    userContents, userFiles, allContents, generateCalls,
                    generated, response >>

\* parseFileData(filedata) is called and returns; the caller's loop gets it
ParseFileData ==
    /\ pc = "parse"
    /\ files' = FilesOf(parseFileData(filedata))
    /\ pc' = "data"
    /\ UNCHANGED << req, status, apikey, hIdx, role, turnText, filedata, fIdx, filesSeen, parts,
                    activated, caller, cur, historyContents, historyFiles,
                    userContents, userFiles, allContents, generateCalls,
                    generated, response >>

NextParse ==
    \/ ParseFileURLs
    \/ ParseFileData

SpecParse == InitParse /\ [][NextParse]_vars

TypeOK ==
    /\ pc \in {"route", "refused", "start", "history", "hfile", "cfile", "fetch", "upload",
               "upoll", "wpoll", "generate", "done", "parse", "urls", "data"}
    /\ fIdx \in 0..MaxFiles
    /\ filesSeen \in fIdx..MaxFiles
    /\ hIdx \in 0..MaxHistory
    /\ Len(activated) = fIdx

\* ------------------------------------------------------------ claims
IsFilePart(p) == "fileUri" \in DOMAIN p

\* the request carries an apikey
HasApiKey == apikey # Undefined /\ apikey # ""

\* positions, in the turn's file list, of the file parts of a parts list
FileKs(ps) ==
    LET fs == SelectSeq(ps, IsFilePart) IN [j \in 1..Len(fs) |-> fs[j].k]

\* the positions marked TRUE in a log of the turn's files, ascending
TruePositions(log) ==
    LET pos == [j \in 1..Len(log) |-> j]
        IsTrue(j) == log[j]
    IN  SelectSeq(pos, IsTrue)

FailureOutcomes ==
    { "FetchFailure", "UploadFailure", "EmptyUri", "NoFileId", "PollError",
      "NotFound", "ActivationFailed", "ActivationTimedOut" }

\* status polls issued so far for the file in progress, at least: the polls
\* of the uploader's loop count as one once fetchAndUploadFile has returned
PollsIssued ==
    CASE pc = "upoll" -> cur.i + 1
      [] pc = "wpoll" -> (IF cur.uploaded THEN 1 ELSE 0) + cur.i + 1
      [] OTHER -> 0

\* C1: no HTTP fetch and no remote-store upload is issued for a locator that
\* starts with the remote-store prefix, in a history item or in the current
\* turn.
C1_NoFetchForRemote ==
    pc \in {"fetch", "upload"} => ~StartsWithRemotePrefix(cur.url)

\* C2: when a turn ends, the file parts of the block it emits are exactly
\* the files of the turn that did not fail, in the order the caller supplied
\* them; a turn none of whose files survived emits no file part.
C2_FilePartsAreSurvivorsInOrder ==
    [][ /\ (pc = "hfile" /\ pc' = "history") =>
            LET new == SubSeq(historyContents', Len(historyContents) + 1,
                              Len(historyContents')) IN
            /\ Len(new) <= 1
            /\ Len(new) = 1 => FileKs(new[1].parts) = TruePositions(activated)
            /\ Len(new) = 0 => TruePositions(activated) = <<>>
        /\ (pc = "cfile" /\ pc' \in {"generate", "done"}) =>
            /\ Len(userContents') <= 1
            /\ Len(userContents') = 1 =>
                 FileKs(userContents'[1].parts) = TruePositions(activated)
            /\ Len(userContents') = 0 => TruePositions(activated) = <<>>
      ]_vars

C2_Witness ==
    /\ pc = "generate"
    /\ activated = << TRUE, TRUE >>
    /\ FileKs(userContents[1].parts) = << 1, 2 >>

\* C3: a file-level failure (fetch, upload, activation failure, time-out)
\* ends that file only: control is back at the file loop of the same turn
\* with the turn's parts, the history position and the response untouched,
\* a finished request has gone through the current turn, and an internal
\* error is reported only when the generation call threw.
C3_FileFailureIsContained ==
    /\ [](response.kind = "InternalError" => generated = "threw")
    /\ []((pc = "done" /\ HasApiKey) => caller = "current")
    /\ [][ (fIdx' = fIdx + 1 /\ cur'.outcome \in FailureOutcomes) =>
             /\ pc' = (IF caller = "history" THEN "hfile" ELSE "cfile")
             /\ UNCHANGED << parts, hIdx, caller, role, historyContents,
                             userContents, response >>
         ]_vars

C3_Witness ==
    /\ caller = "current"
    /\ activated = << FALSE >>
    /\ pc = "wpoll"

\* C4: the request ends with NoContent exactly when the apikey is present
\* and history and current turn yielded no block; that response has
\* success = false and the generation call was not made.
C4_NoContentIffNoBlocks ==
    /\ response.kind = "NoContent" <=>
         (pc = "done" /\ HasApiKey /\ historyContents = <<>> /\ userContents = <<>>)
    /\ response.kind = "NoContent" => (~response.success /\ generateCalls = 0)

C4_Witness ==
    /\ response.kind = "NoContent"
    /\ hIdx > 0
    /\ Len(activated) > 0

\* C5: once a status poll has reported FAILED for a file, no further status
\* poll is issued for it and its wait does not end as a time-out.
C5_FailedStopsPolling ==
    cur.sawFailed => (pc \notin {"upoll", "wpoll"} /\ cur.outcome # "ActivationTimedOut")

\* C6: once a status poll of an uploaded file has returned ACTIVE, no
\* further status poll is issued for it and the file is not dropped as
\* failed or timed out.
C6_ActiveIsTerminal ==
    cur.sawActive =>
        /\ pc \notin {"upoll", "wpoll"}
        /\ cur.outcome \notin {"ActivationFailed", "ActivationTimedOut", "NotFound"}

\* C7: the status polls issued for one file never exceed the attempt budget
\* of 20.
C7_PollsWithinBudget == PollsIssued <= 20

\* C8: a status poll that throws an error other than not-found never fails
\* the file, in the uploader's loop as in waitForFileActive.
C8_TransientPollErrorTolerated == cur.outcome # "PollError"

\* C9: the generation call is made at most once; a finished request that
\* produced at least one block has made it exactly once, with all the
\* produced blocks, and when the call returned the response has
\* success = true.
C9_GenerateOnceWithAllBlocks ==
    /\ generateCalls <= 1
    /\ (pc \in {"generate", "done"} /\ (historyContents # <<>> \/ userContents # <<>>)) =>
          /\ generateCalls = 1
          /\ SelectSeq(allContents, LAMBDA b : b.item # 0) = historyContents
          /\ SelectSeq(allContents, LAMBDA b : b.item = 0) = userContents
    /\ generated = "returned" => (pc = "done" /\ response.success)

C9_Witness ==
    /\ pc = "done"
    /\ response.success
    /\ cur.outcome = "ActivationTimedOut"
    /\ Len(allContents) = 1

\* C10: in the assembled context the history blocks come in the order of
\* the history items, the current turn contributes at most one block, and
\* that block is last.
C10_HistoryThenCurrent ==
    /\ \A p \in 1..Len(historyContents) : historyContents[p].item >= 1
    /\ \A p \in 1..Len(userContents) : userContents[p].item = 0
    /\ \A p, q \in 1..Len(allContents) :
         p < q => /\ allContents[p].item # 0
                  /\ allContents[q].item # 0 => allContents[p].item < allContents[q].item

C10_Witness ==
    /\ Len(allContents) = 3
    /\ allContents[3].item = 0

\* C11: no block with zero parts is ever emitted; a turn that ends with no
\* part (blank text, every file skipped or dropped) adds no block, and the
\* request goes on without an error response.
C11_NoEmptyBlock ==
    /\ [](\A i \in 1..Len(historyContents) : Len(historyContents[i].parts) > 0)
    /\ [](\A i \in 1..Len(userContents) : Len(userContents[i].parts) > 0)
    /\ [](\A i \in 1..Len(allContents) : Len(allContents[i].parts) > 0)
    /\ [][ /\ (pc = "hfile" /\ pc' = "history" /\ parts = <<>>)
              => (UNCHANGED << historyContents, response >>)
           /\ (pc = "cfile" /\ pc' \in {"generate", "done"} /\ parts = <<>>)
              => /\ userContents' = <<>>
                 /\ allContents' = historyContents
                 /\ response'.kind # "InternalError" ]_vars

C11_Witness ==
    /\ pc = "history"
    /\ hIdx = 1
    /\ filesSeen = 1
    /\ historyContents = <<>>

\* C12: the upload records grow by exactly one record when a file uploaded
\* by this call is activated, and by nothing else (in particular not for a
\* reference that was already remote); the response lists the history
\* records first, then the current turn's.
C12_RecordsAreNewUploads ==
    /\ [](response.kind = "Generated"
            => response.fileDatas = historyFiles \o userFiles)
    /\ [][ IF pc = "wpoll" /\ cur'.outcome = "Added" /\ cur'.uploaded
           THEN (historyFiles \o userFiles)'
                  = Append(historyFiles \o userFiles,
                           [uri |-> cur.uri, mimeType |-> cur.mimeType])
           ELSE UNCHANGED << historyFiles, userFiles >> ]_vars

\* C13: a history descriptor with a remote-store uri and a non-blank
\* mimeType always puts a file part with exactly that uri and mimeType
\* into the item's parts, whatever the remote store answers: the file loop
\* of an item never polls for it and never drops it.
C13_RemoteDescriptorVerbatim ==
    [][ /\ (pc = "hfile" /\ fIdx' = fIdx + 1 /\ cur'.outcome # "Skipped")
           => FALSE
        /\ (pc = "wpoll" /\ caller = "history" /\ ~cur.uploaded /\ fIdx' = fIdx + 1)
           => parts' = Append(parts, [fileUri |-> cur.uri,
                                      mimeType |-> cur.mimeType,
                                      k |-> fIdx + 1]) ]_vars

\* C14: a history item without a string role is passed over: no file of a
\* history turn is ever in progress under such a role, no block carries it,
\* and the step that passes it over changes nothing but the loop position
\* (the item last taken), so blocks and records of the other items are
\* what they would be without it.
C14_MalformedItemIsInert ==
    /\ []((caller = "history"
             /\ pc \in {"hfile", "fetch", "upload", "upoll", "wpoll"})
            => UsableText(role))
    /\ [](\A i \in 1..Len(historyContents) : UsableText(historyContents[i].role))
    /\ [][ (pc = "history" /\ pc' = "history")
           => UNCHANGED << req, status, apikey, files, fIdx, filesSeen, parts, activated, caller,
                           cur, historyContents, historyFiles, userContents,
                           userFiles, allContents, generateCalls, generated,
                           response >> ]_vars

C14_Witness ==
    /\ pc = "history"
    /\ hIdx = 2
    /\ role = Undefined
    /\ filedata = LazyArray
    /\ Len(historyContents) = 1
    /\ Len(historyFiles) = 1

\* C15: a malformed descriptor of a history item is skipped alone: no
\* fetch, upload or poll of a history turn runs on a blank uri or with a
\* blank mimeType, and the step that skips it leaves the parts, the
\* records, the blocks and the response as they are and stays in the
\* item's file loop.
C15_MalformedDescriptorSkippedAlone ==
    /\ []((caller = "history" /\ pc \in {"fetch", "upload", "upoll"})
            => UsableUri(cur.url))
    /\ []((caller = "history" /\ pc = "wpoll")
            => (UsableUri(cur.uri) /\ UsableText(cur.mimeType)))
    /\ [][ (pc = "hfile" /\ fIdx' = fIdx + 1 /\ cur'.outcome = "Skipped")
           => /\ pc' = "hfile"
              /\ UNCHANGED << parts, historyFiles, historyContents, hIdx,
                              role, response >> ]_vars

C15_Witness ==
    /\ pc = "hfile"
    /\ cur.outcome = "Skipped"
    /\ activated = << TRUE, FALSE >>
    /\ FileKs(parts) = << 1 >>

\* a filedata string that holds no file array: blank, no JSON, or a JSON
\* value that is not an array
HoldsNoFileArray(fd) ==
    /\ fd.t = "str"
    /\ \/ trim(fd.v) = <<>>
       \/ ~JsonParse(fd.v).ok
       \/ JsonParse(fd.v).val.t # "arr"

\* C16: whatever string a history item's filedata is, parsing it does not
\* fail the call: for a blank string, a string that is no JSON and a JSON
\* value that is no array the item has no file to process, its parts are
\* its text part, no response has been produced, and the item's next step
\* ends it with the block of its text and hands over to the history loop.
C16_FileDataNeverFailsTheCall ==
    /\ []((pc = "hfile" /\ HoldsNoFileArray(filedata))
            => /\ ~files.lazy
               /\ Len(files.rest) = 0
               /\ fIdx = 0
               /\ parts = TextParts(turnText)
               /\ response = NoResponse)
    /\ [][ (pc = "hfile" /\ HoldsNoFileArray(filedata))
           => /\ pc' = "history"
              /\ hIdx' = hIdx
              /\ historyContents'
                   = historyContents
                       \o (IF UsableText(turnText)
                           THEN << [role |-> role,
                                    parts |-> << [text |-> turnText] >>,
                                    item |-> hIdx] >>
                           ELSE <<>>) ]_vars

C16_Witness ==
    /\ pc = "hfile"
    /\ hIdx = 2
    /\ filedata = Str(<<"1">>)
    /\ parts = << [text |-> "hi"] >>

\* the trimmed non-empty segments between the commas of a string, in order
Segments(cs) ==
    LET segs == split(cs, ",")
        trimmed == [i \in 1..Len(segs) |-> trim(segs[i])]
    IN  SelectSeq(trimmed, LAMBDA x : x # <<>>)

IsJsonArray(cs) == JsonParse(cs).ok /\ JsonParse(cs).val.t = "arr"

C18_JsonArrayKeptAsIs ==
    pc = "urls"
    => /\ \A e \in EncodedLists :
            (filedata.t = "str" /\ filedata.v = e.json)
            => files.rest
                 = SelectSeq(e.list, LAMBDA x : \E i \in 1..Len(x) : x[i] # " ")
       /\ (filedata.t = "arr" /\ \A i \in 1..Len(filedata.v) : filedata.v[i].t = "str")
            => files.rest
                 = parseFileURLs(Str(JsonStringify(
                       [i \in 1..Len(filedata.v) |-> filedata.v[i].v])))

C18_Witness ==
    /\ pc = "urls"
    /\ filedata = Str(JsonStringify(<< <<",", "a">>, <<" ">> >>))
    /\ files.rest = << <<",", "a">> >>

\* C19: an upload response whose file object lacks a name or a uri ends
\* the upload before any status poll: no poll of the uploader is ever in
\* progress on such a file object.
C19_IncompleteUploadResponseFails ==
    cur.incomplete => pc # "upoll"

\* C20: while a turn is assembled, a non-blank text is its first part, as
\* given, and every other part is a file part; a missing or blank text
\* leaves only file parts; the block of a turn is its parts as assembled.
C20_TextPartFirst ==
    /\ [](pc \in {"hfile", "cfile", "fetch", "upload", "upoll", "wpoll"}
            => IF turnText # Undefined /\ turnText # "" /\ turnText # " "
               THEN /\ Len(parts) >= 1
                    /\ ~IsFilePart(parts[1])
                    /\ parts[1].text = turnText
                    /\ \A j \in 2..Len(parts) : IsFilePart(parts[j])
               ELSE \A j \in 1..Len(parts) : IsFilePart(parts[j]))
    /\ [][ /\ (pc = "hfile" /\ pc' = "history" /\ parts # <<>>)
              => historyContents'[Len(historyContents')].parts = parts
           /\ (pc = "cfile" /\ pc' = "generate" /\ parts # <<>>)
              => userContents'[1].parts = parts ]_vars

C20_Witness ==
    /\ pc = "generate"
    /\ turnText = "hello"
    /\ Len(userContents[1].parts) = 2
    /\ IsFilePart(userContents[1].parts[2])

\* C21: a response with success = false carries no file records, on every
\* failure path and whatever was uploaded before; only a success = true
\* response has records.
C21_FailureCarriesNoFiles ==
    /\ (response.kind # "none" /\ ~response.success)
         => response.fileDatas = <<>>
    /\ (response.kind # "none" /\ response.fileDatas # <<>>)
         => response.success

C21_Witness ==
    /\ response.kind = "InternalError"
    /\ historyFiles # <<>>
    /\ userFiles # <<>>

\* C22: in waitForFileActive a status poll that throws a not-found error
\* ends the wait at once: the file is over with outcome NotFound, no
\* further poll of it is in progress, and the step that received the error
\* left the polling loop without adding a part or a record.
C22_NotFoundEndsWait ==
    /\ [](cur.sawNotFound => (pc # "wpoll" /\ cur.outcome = "NotFound"))
    /\ [][ (pc = "wpoll" /\ cur'.sawNotFound)
           => /\ fIdx' = fIdx + 1
              /\ pc' \in {"hfile", "cfile"}
              /\ UNCHANGED << parts, historyFiles, userFiles >> ]_vars

C22_Witness ==
    /\ cur.sawNotFound
    /\ cur.outcome = "NotFound"
    /\ pc = "cfile"
    /\ cur.uploaded

\* C23: once processGeminiRequest has been entered it reaches a final
\* response, whatever the remote calls answer, provided each of them
\* returns or throws.
C23_ReachesFinalResponse ==
    (pc = "start") ~> (pc = "done" /\ response.kind # "none")

C23_Witness ==
    /\ pc = "done"
    /\ response.kind = "NoContent"
    /\ cur.outcome = "ActivationTimedOut"
    /\ filesSeen = MaxFiles

\* the (uri, mimeType) pairs of the file parts of a parts list, in order
PartRefs(ps) ==
    LET fp == SelectSeq(ps, IsFilePart)
    IN  [i \in 1..Len(fp) |-> [uri |-> fp[i].fileUri, mimeType |-> fp[i].mimeType]]

\* the same for a list of blocks, read in block order
RECURSIVE BlockRefs(_)
BlockRefs(blocks) ==
    IF Len(blocks) = 0 THEN <<>>
    ELSE PartRefs(Head(blocks).parts) \o BlockRefs(Tail(blocks))

\* C24: the upload records are the file parts, pair by pair and in order:
\* while a turn is assembled its records match the file parts of its parts
\* list, the records of the history match the file parts of the history
\* blocks, and the records of the request match the file parts of the
\* assembled context.
C24_RecordsMatchFileParts ==
    /\ (caller = "history" /\ pc \in {"hfile", "fetch", "upload", "upoll", "wpoll"})
         => historyFiles = BlockRefs(historyContents) \o PartRefs(parts)
    /\ (caller = "history" /\ pc = "history")
         => historyFiles = BlockRefs(historyContents)
    /\ caller = "current"
         => /\ historyFiles = BlockRefs(historyContents)
            /\ userFiles = PartRefs(parts)
    /\ pc \in {"generate", "done"}
         => historyFiles \o userFiles = BlockRefs(allContents)

C24_Witness ==
    /\ pc = "generate"
    /\ Len(historyFiles) = 1
    /\ Len(userFiles) = 1
    /\ Len(allContents) = 2

\* C25: remote operations run one at a time and in input order: a file's
\* first operation starts at the head of its turn's file loop, when the
\* file before it is over; the files of a turn are taken in order and the
\* history items in order; the current turn starts from the history loop
\* between two items, and from then on the history results stay as they are.
C25_OneRemoteOperationAtATime ==
    /\ [](pc = "hfile" => caller = "history")
    /\ [](pc = "cfile" => caller = "current")
    /\ [][ /\ (caller' # caller)
              => (pc = "history" /\ pc' = "cfile" /\ caller' = "current")
           /\ (pc' \in {"fetch", "wpoll"} /\ pc \notin {"fetch", "upload", "upoll", "wpoll"})
              => (pc = (IF caller = "history" THEN "hfile" ELSE "cfile")
                  /\ fIdx' = fIdx /\ Len(activated) = fIdx)
           /\ (pc \in {"fetch", "upload", "upoll", "wpoll"})
              => (UNCHANGED << hIdx, caller >> /\ fIdx' \in {fIdx, fIdx + 1})
           /\ hIdx' \in {hIdx, hIdx + 1}
           /\ (caller = "current")
              => UNCHANGED << hIdx, historyContents, historyFiles >> ]_vars

C25_Witness ==
    /\ pc = "fetch"
    /\ caller = "current"
    /\ hIdx = 2
    /\ Len(historyFiles) = 1

\* C26: a request without apikey (absent or empty) ends with success =
\* false and makes no remote call: no history item and no file is taken,
\* no file is in progress and the generation call is not made.
C26_NoApiKeyNoRemoteCall ==
    (apikey = Undefined \/ apikey = "")
    => /\ pc \in {"route", "refused", "start", "done"}
       /\ hIdx = 0
       /\ filesSeen = 0
       /\ cur = NoFile
       /\ generateCalls = 0
       /\ generated = "none"
       /\ pc = "done" => (response.kind = "ApiKeyMissing" /\ ~response.success)

C26_Witness ==
    /\ apikey = ""
    /\ pc = "done"
    /\ response.kind = "ApiKeyMissing"

\* C27: waitForFileActive polls only for a uri that ends in /files/<id>
\* with a non-empty id; for any other uri the file ends with NoFileId
\* without a poll of the waiter, without a part and without a record, and
\* the file loop of the turn goes on.
C27_NoIdNoPoll ==
    /\ [](pc = "wpoll"
            => /\ Len(cur.uri) >= 3
               /\ cur.uri[Len(cur.uri) - 1] = "files"
               /\ cur.uri[Len(cur.uri)] # "")
    /\ [][ (cur'.outcome = "NoFileId" /\ fIdx' = fIdx + 1)
           => /\ pc \in {"hfile", "upoll"}
              /\ pc' = (IF caller = "history" THEN "hfile" ELSE "cfile")
              /\ activated' = Append(activated, FALSE)
              /\ UNCHANGED << parts, historyFiles, userFiles, response >> ]_vars

C27_Witness ==
    /\ pc = "hfile"
    /\ cur.outcome = "NoFileId"
    /\ ~cur.uploaded
    /\ activated = << TRUE, FALSE >>

\* C28: for a POST request with JSON content type and a body that parses,
\* the status is 200 exactly when processGeminiRequest returned success =
\* true and 400 for every other result, internal errors included; for an
\* OPTIONS, non-POST or non-JSON request processGeminiRequest is not
\* entered.
C28_StatusFollowsSuccess ==
    /\ (req.method = "POST" /\ req.json /\ req.parses /\ status # 0)
         => /\ response.kind # "none"
            /\ status = (IF response.success THEN 200 ELSE 400)
    /\ (req.method # "POST" \/ ~req.json)
         => /\ pc \in {"route", "refused"}
            /\ response = NoResponse
            /\ generateCalls = 0
            /\ filesSeen = 0

C28_Witness ==
    /\ status = 400
    /\ response.kind = "InternalError"

====
